---- MODULE Spec2Model ----
(***************************************************************************)
(* Workflow plan generation and execution engine of OpsFlow Guardian:      *)
(*   GeminiService   (app/services/gemini_service.py)  plan generation     *)
(*   PortiaService   (app/services/portia_service.py)  conversion and      *)
(*                                                     execution           *)
(*   approval and workflow endpoints (app/api/v1/endpoints)                *)
(*   approval policy (app/services/portia_integration.py)                  *)
(* Plan data are Python dicts; they are modelled as functions whose DOMAIN *)
(* is the set of keys that are present, so that dict.get / dict.setdefault *)
(* keep their meaning.  Lists of step numbers (dependencies) are modelled  *)
(* as sets.  Free-text fields that no operation reads (description,        *)
(* plan_summary, approval_checkpoints, contingency_plans) are left out.    *)
(***************************************************************************)
EXTENDS Integers, Sequences, FiniteSets, TLC

VARIABLES
    apiKeySet,      \* settings.GOOGLE_API_KEY is set to a real key
    modelReady,     \* GeminiService.model is not None
    genPc,          \* position of the plan creation call and its conversion
    response,       \* raw oracle response handed to _parse_gemini_response
    genPath,        \* path by which generate_workflow_plan produced planData
    planData,       \* dict returned by generate_workflow_plan
    validated,      \* planData is the return value of _validate_plan_data
    plan,           \* WorkflowPlan built by _convert_to_workflow_plan
    plannerStatus,  \* agents["planner-001"].status
    execPc,         \* per execute_workflow call: position in the coroutine
    stepIndex,      \* per call: loop variable of the step loop (1-based)
    stepResults,    \* per call: execution.step_results[step.id]["status"]
    execStatus,     \* per call: execution.status
    activeWorkflows,\* keys of PortiaService.active_workflows
    executorStatus, \* agents["executor-001"].status
    rollbackCalls,  \* per call and step: invocations of the rollback procedure
    approvalResult, \* result["status"] of the last approve / reject request
    workflows_storage, \* endpoints/workflows.py: workflow_id -> workflow dict
    approvalCheck,  \* last evaluation of _requires_human_approval
    stepCheck,      \* one candidate step through the validator and the converter
    riskCheck,      \* one evaluation of the two _calculate_overall_risk
    agentConfig, \* last agent or company configuration derived from a company profile
    agentStats, \* agents_storage[agent_id], the statistics keys of one agent
    execution_storage, \* statuses of the agent's entries of execution_storage, in creation order
    rateCheck, \* last success rate computed by calculate_success_rate or list_agents
    divisionError, \* some success rate computation divided by zero
    initPc, \* position of PortiaService.initialize
    initLog, \* outcome of each initialization step taken so far
    agents, \* PortiaService.agents, agent id -> role
    agentLookup, \* outcome of the last agent lookup by create_workflow_plan or execute_workflow
    active_connections, \* ConnectionManager.active_connections, a list of websockets
    user_connections, \* ConnectionManager.user_connections, user id -> list of websockets
    wsEndpoint, \* per websocket, the position of its endpoint and the user id it connected with
    settingsDebug, \* settings.DEBUG as the middleware reads it (unloaded, on, off)
    clock, \* time.time(), in seconds
    requests, \* RateLimitMiddleware.requests, client ip -> deque of timestamps
    passedOn, \* per client ip, the timestamps of the requests handed to call_next
    lastDispatch \* client ip and outcome of the last dispatch

genVars == <<apiKeySet, modelReady, genPc, response, genPath,
             planData, validated, plan, plannerStatus>>

execVars == <<execPc, stepIndex, stepResults, execStatus, activeWorkflows,
              executorStatus, rollbackCalls>>

apiVars == <<approvalResult, workflows_storage, approvalCheck>>

pureVars == <<stepCheck, riskCheck>>

profileVars == <<agentConfig>>

metricVars == <<agentStats, execution_storage, rateCheck, divisionError>>

initVars == <<initPc, initLog, agents, agentLookup>>

wsVars == <<active_connections, user_connections, wsEndpoint>>

rateVars == <<settingsDebug, clock, requests, passedOn, lastDispatch>>

auxVars == <<pureVars, profileVars, metricVars, initVars, wsVars, rateVars>>

\* everything outside one group of variables
outsidePure ==
    <<genVars, execVars, apiVars, profileVars, metricVars, initVars, wsVars, rateVars>>
outsideProfile ==
    <<genVars, execVars, apiVars, pureVars, metricVars, initVars, wsVars, rateVars>>
outsideMetric ==
    <<genVars, execVars, apiVars, pureVars, profileVars, initVars, wsVars, rateVars>>
outsideInit ==
    <<genVars, execVars, apiVars, pureVars, profileVars, metricVars, wsVars, rateVars>>
outsideWs ==
    <<genVars, execVars, apiVars, pureVars, profileVars, metricVars, initVars, rateVars>>
outsideRate ==
    <<genVars, execVars, apiVars, pureVars, profileVars, metricVars, initVars, wsVars>>

vars == <<genVars, execVars, apiVars, auxVars>>

(***************************************************************************)
(* Bounds                                                                  *)
(***************************************************************************)
MaxCandSteps == 2   \* steps in an oracle candidate plan
MaxSteps == 3       \* steps in an executed plan
MaxWorkflows == 2   \* workflows created through POST /workflows
MaxExecutions == 3  \* executions requested of one agent
MaxTasks == 3       \* tasks_completed and tasks_failed of an AgentMetrics
MaxExecs == 2       \* execute_workflow calls in flight
MaxSockets == 2     \* websocket connections made
MaxTime == 5        \* last value of the clock
MaxRequests == 4    \* requests of one client handed to the application

\* rate_limit and window_size of RateLimitMiddleware.__init__ are 60 requests
\* and 60 seconds (rate_limiting.py lines 21-22); the model takes them as
\* parameters and checks small values, so that a window fills and slides
\* within MaxTime
rate_limit == 2
window_size == 2

\* the websocket objects the endpoints are called with
WebSockets == 1..MaxSockets

\* request.client.host
ClientIps == {"10.0.0.1", "10.0.0.2"}

(***************************************************************************)
(* Python dict operations                                                  *)
(***************************************************************************)
EmptyDict == [k \in {} |-> 0]

Has(d, k) == k \in DOMAIN d

Get(d, k, default) == IF Has(d, k) THEN d[k] ELSE default

SetDefault(d, k, v) == IF Has(d, k) THEN d ELSE d @@ (k :> v)

RECURSIVE SumDurations(_)
SumDurations(steps) ==
    IF steps = <<>> THEN 0
    ELSE Get(Head(steps), "estimated_duration", 10) + SumDurations(Tail(steps))

RiskLevels == {"low", "medium", "high"}

(***************************************************************************)
(* GeminiService._create_fallback_plan                                     *)
(***************************************************************************)
FallbackSteps ==
    << [ step_number |-> 1, name |-> "Initialize Workflow",
         tool_integrations |-> <<"internal">>, risk_level |-> "low",
         requires_approval |-> FALSE, estimated_duration |-> 5,
         dependencies |-> {},
         success_criteria |-> "Workflow environment ready",
         rollback_procedure |-> "Clean up any initialized resources" ],
       [ step_number |-> 2, name |-> "Execute Main Task",
         tool_integrations |-> <<"google_workspace", "slack">>,
         risk_level |-> "medium",
         requires_approval |-> TRUE, estimated_duration |-> 20,
         dependencies |-> {1},
         success_criteria |-> "Main task completed successfully",
         rollback_procedure |-> "Undo main task changes" ],
       [ step_number |-> 3, name |-> "Finalize and Report",
         tool_integrations |-> <<"email">>, risk_level |-> "low",
         requires_approval |-> FALSE, estimated_duration |-> 5,
         dependencies |-> {2},
         success_criteria |-> "Notifications sent successfully",
         rollback_procedure |-> "Send error notification if needed" ] >>

\* mutant: the fallback plan is classified high risk
CreateFallbackPlanHighRisk ==
    [ overall_risk |-> "high",
      estimated_duration |-> 30,
      requires_human_approval |-> TRUE,
      steps |-> FallbackSteps ]

CreateFallbackPlan ==
    [ overall_risk |-> "medium",
      estimated_duration |-> 30,
      requires_human_approval |-> TRUE,
      steps |-> FallbackSteps ]

(***************************************************************************)
(* Mock plans (mock mode: no API key, or no model)                         *)
(***************************************************************************)
MockStep(n, nm, tools, risk, appr, dur, crit, rb) ==
    [ step_number |-> n, name |-> nm, tool_integrations |-> tools,
      risk_level |-> risk, requires_approval |-> appr,
      estimated_duration |-> dur, success_criteria |-> crit,
      rollback_procedure |-> rb ]

MockVendorOnboardingPlan ==
    [ overall_risk |-> "medium",
      estimated_duration |-> 45,
      requires_human_approval |-> TRUE,
      steps |-> <<
        MockStep(1, "Vendor Information Validation",
                 <<"google_drive", "compliance_check">>, "low", FALSE, 10,
                 "All required documents verified",
                 "Flag missing documents for manual review"),
        MockStep(2, "Create Vendor Workspace",
                 <<"google_drive", "notion">>, "low", FALSE, 15,
                 "Workspace created with proper permissions",
                 "Delete created workspace if setup fails"),
        MockStep(3, "Contract Review and Setup",
                 <<"docusign", "legal_review">>, "high", TRUE, 20,
                 "Contract approved and ready for signature",
                 "Escalate to legal team for review") >> ]

MockEmployeeOnboardingPlan ==
    [ overall_risk |-> "medium",
      estimated_duration |-> 60,
      requires_human_approval |-> TRUE,
      steps |-> <<
        MockStep(1, "IT Setup and Account Creation",
                 <<"gmail", "slack", "github", "jira">>, "medium", TRUE, 20,
                 "All accounts created and configured",
                 "Disable accounts if setup incomplete"),
        MockStep(2, "Welcome Package Preparation",
                 <<"email", "calendar", "notion">>, "low", FALSE, 15,
                 "Welcome materials sent and meetings scheduled",
                 "Resend materials if delivery fails"),
        MockStep(3, "Team Introductions",
                 <<"slack", "calendar", "email">>, "low", FALSE, 25,
                 "Team notified and meetings scheduled",
                 "Manual follow-up if automated notifications fail") >> ]

MockIncidentResponsePlan ==
    [ overall_risk |-> "high",
      estimated_duration |-> 30,
      requires_human_approval |-> TRUE,
      steps |-> <<
        MockStep(1, "Incident Assessment and Classification",
                 <<"monitoring", "alerting">>, "medium", FALSE, 5,
                 "Incident properly classified and documented",
                 "Escalate to on-call manager"),
        MockStep(2, "Team Notification and War Room Setup",
                 <<"slack", "email", "pagerduty">>, "high", TRUE, 10,
                 "Response team assembled and communication established",
                 "Manual escalation to management"),
        MockStep(3, "Issue Tracking and Documentation",
                 <<"jira", "confluence", "slack">>, "medium", FALSE, 15,
                 "Incident properly documented and tracked",
                 "Continue with manual documentation") >> ]

MockGenericPlan ==
    [ overall_risk |-> "medium",
      estimated_duration |-> 30,
      requires_human_approval |-> FALSE,
      steps |-> <<
        MockStep(1, "Initialize Workflow",
                 <<"internal">>, "low", FALSE, 10,
                 "Parameters validated and workflow ready",
                 "Reset parameters and restart"),
        MockStep(2, "Execute Primary Tasks",
                 <<"google_workspace", "slack">>, "medium", TRUE, 15,
                 "Primary tasks completed successfully",
                 "Undo changes and notify stakeholders"),
        MockStep(3, "Finalize and Report",
                 <<"email", "audit">>, "low", FALSE, 5,
                 "Workflow completed and stakeholders notified",
                 "Send error notification") >> ]

\* Keywords of request.description that _generate_mock_plan looks for.
Keywords == {"vendor", "onboard", "employee", "engineer",
             "incident", "outage", "critical"}

GenerateMockPlan(req) ==
    IF "vendor" \in req /\ "onboard" \in req
      THEN MockVendorOnboardingPlan
    ELSE IF "employee" \in req \/ ("onboard" \in req /\ "engineer" \in req)
      THEN MockEmployeeOnboardingPlan
    ELSE IF "incident" \in req \/ "outage" \in req \/ "critical" \in req
      THEN MockIncidentResponsePlan
    ELSE MockGenericPlan

(***************************************************************************)
(* GeminiService._validate_plan_data                                       *)
(* A decoded JSON value is [tag, val]: tag "map" carries the dict in val,  *)
(* the other tags (list, str, num, null) are values that are not mappings. *)
(***************************************************************************)
StepName(i) == "Step " \o ToString(i)

\* variant in which requires_approval does not look at the step's risk
ValidateStepApprovalFalse(step, i) ==
    LET s1 == SetDefault(step, "step_number", i)
        s2 == SetDefault(s1, "name", StepName(i))
        s3 == SetDefault(s2, "tool_integrations", <<"internal">>)
        s4 == SetDefault(s3, "risk_level", "medium")
        s5 == SetDefault(s4, "requires_approval", FALSE)
        s6 == SetDefault(s5, "estimated_duration", 10)
        s7 == SetDefault(s6, "dependencies", {})
        s8 == SetDefault(s7, "success_criteria", "Step completes without errors")
    IN  SetDefault(s8, "rollback_procedure", "Reverse any changes made in this step")

\* body of the for loop; i is the 1-based position (enumerate's i + 1)
ValidateStep(step, i) ==
    LET s1 == SetDefault(step, "step_number", i)
        s2 == SetDefault(s1, "name", StepName(i))
        s3 == SetDefault(s2, "tool_integrations", <<"internal">>)
        s4 == SetDefault(s3, "risk_level", "medium")
        s5 == SetDefault(s4, "requires_approval", s4["risk_level"] = "high")
        s6 == SetDefault(s5, "estimated_duration", 10)
        s7 == SetDefault(s6, "dependencies", {})
        s8 == SetDefault(s7, "success_criteria", "Step completes without errors")
    IN  SetDefault(s8, "rollback_procedure", "Reverse any changes made in this step")

AnyRequiresApproval(steps) ==
    \E i \in 1..Len(steps) : Get(steps[i], "requires_approval", FALSE)

ValidatePlanData(pd) ==
    LET p0 == SetDefault(pd, "steps", <<>>)
        steps == [i \in 1..Len(p0["steps"]) |-> ValidateStep(p0["steps"][i], i)]
        p1 == [p0 EXCEPT !["steps"] = steps]
        p2 == SetDefault(p1, "overall_risk", "medium")
        p3 == SetDefault(p2, "estimated_duration", SumDurations(steps))
    IN  SetDefault(p3, "requires_human_approval", AnyRequiresApproval(steps))

\* _validate_plan_data raises TypeError on a value that is not a mapping
ValidateRaises(v) == v.tag # "map"

(***************************************************************************)
(* GeminiService._parse_gemini_response                                    *)
(* The response text is [kind, inner_ok, value]:                           *)
(*   json    the whole text is the JSON encoding of value                  *)
(*   fenced  the text is not JSON but contains a ``` block; the block is   *)
(*           the JSON encoding of value iff inner_ok                       *)
(*   prose   the text is not JSON and contains no ``` block                *)
(*   blocked reading response.text raises                                  *)
(***************************************************************************)
JsonLoads(text) ==
    IF text.kind = "json" THEN [ok |-> TRUE, value |-> text.value]
    ELSE [ok |-> FALSE, value |-> text.value]

\* re.search(r'```(?:json)?\s*(.*?)\s*```'): the group as a text of its own
ReSearch(text) ==
    IF text.kind = "fenced"
      THEN [matched |-> TRUE,
            group |-> [kind |-> IF text.inner_ok THEN "json" ELSE "prose",
                       inner_ok |-> FALSE, value |-> text.value]]
      ELSE [matched |-> FALSE, group |-> text]

Returned(d, path, v) == [data |-> d, path |-> path, validated |-> v]

\* lines 282-285, reached with plan_data decoded or built
ValidateAndReturn(v, path) ==
    IF ValidateRaises(v)
      THEN Returned(CreateFallbackPlan, "fallback_exception", FALSE)
      ELSE Returned(ValidatePlanData(v.val), path, TRUE)

ParseGeminiResponse(resp) ==
    IF resp.kind = "blocked"
      THEN Returned(CreateFallbackPlan, "fallback_exception", FALSE)
    ELSE IF JsonLoads(resp).ok
      THEN ValidateAndReturn(JsonLoads(resp).value, "direct")
    ELSE IF ReSearch(resp).matched
      THEN IF JsonLoads(ReSearch(resp).group).ok
             THEN ValidateAndReturn(JsonLoads(ReSearch(resp).group).value, "embedded")
             ELSE Returned(CreateFallbackPlan, "fallback_exception", FALSE)
    ELSE ValidateAndReturn([tag |-> "map", val |-> CreateFallbackPlan],
                           "fallback_parse")

(***************************************************************************)
(* PortiaService._convert_to_workflow_plan                                 *)
(* step.metadata is flattened into the step record.                        *)
(***************************************************************************)
ConvertStep(sd) ==
    [ name |-> Get(sd, "name", StepName(Get(sd, "step_number", 1))),
      step_order |-> Get(sd, "step_number", 1),
      tool_integrations |-> Get(sd, "tool_integrations", <<"internal">>),
      risk_level |-> Get(sd, "risk_level", "medium"),
      requires_approval |-> Get(sd, "requires_approval", FALSE),
      estimated_duration |-> Get(sd, "estimated_duration", 10),
      status |-> "pending",
      success_criteria |-> Get(sd, "success_criteria", "Step completes successfully"),
      rollback_procedure |-> Get(sd, "rollback_procedure", "Manual rollback required"),
      dependencies |-> Get(sd, "dependencies", {}) ]

PlanStatus(pd) ==
    IF Get(pd, "requires_human_approval", FALSE) THEN "pending_approval"
    ELSE "approved"

ConvertToWorkflowPlan(pd) ==
    LET sds == Get(pd, "steps", <<>>)
    IN  [ status |-> PlanStatus(pd),
          risk_level |-> Get(pd, "overall_risk", "medium"),
          estimated_duration |-> Get(pd, "estimated_duration", 30),
          steps |-> [i \in 1..Len(sds) |-> ConvertStep(sds[i])] ]

NoPlan == [ status |-> "none", risk_level |-> "none",
            estimated_duration |-> 0, steps |-> <<>> ]

(***************************************************************************)
(* Bounded oracle output                                                   *)
(***************************************************************************)
Opt(k, Vals) == {EmptyDict} \cup {k :> v : v \in Vals}

Merge(A, B) == {a @@ b : a \in A, b \in B}

\* dependency list of the step at position i of n, by shape
DepShape(shape, i, n) ==
    CASE shape = "none"     -> {}
      [] shape = "chain"    -> IF i > 1 THEN {i - 1} ELSE {}
      [] shape = "fan"      -> IF i > 1 THEN {1} ELSE {}
      [] shape = "forward"  -> IF i < n THEN {i + 1} ELSE {}
      [] shape = "self"     -> {i}
      [] shape = "dangling" -> {n + 1}

WithDeps(steps, shape) ==
    [i \in 1..Len(steps) |->
        IF shape = "absent" THEN steps[i]
        ELSE steps[i] @@ ("dependencies" :> DepShape(shape, i, Len(steps)))]

SeqsUpTo(S, n) == UNION {[1..m -> S] : m \in 0..n}

\* candidate steps of the generation pipeline: risk and approval optional
GenCandidateSteps ==
    Merge(Opt("risk_level", RiskLevels), Opt("requires_approval", BOOLEAN))

GenShapes == {"absent", "chain", "forward", "self", "dangling"}

CandidateHeaders ==
    Merge(Opt("overall_risk", RiskLevels), Opt("requires_human_approval", BOOLEAN))

CandidateStepLists == SeqsUpTo(GenCandidateSteps, MaxCandSteps)

Candidate(h, ss, sh) == h @@ ("steps" :> WithDeps(ss, sh))

NullValue == [tag |-> "null", val |-> EmptyDict]

NonMappings == {[tag |-> t, val |-> EmptyDict] : t \in {"list", "str", "num", "null"}}

DecodableKinds == {"json", "fenced"}

\* a response that decodes (directly or from its ``` block) to the value v
Decodable(kind, v) == [kind |-> kind, inner_ok |-> (kind = "fenced"), value |-> v]

MapValue(c) == [tag |-> "map", val |-> c]

Undecodable ==
    {[kind |-> k, inner_ok |-> FALSE, value |-> NullValue] :
        k \in {"fenced", "prose", "blocked"}}

NoCheck == [pc |-> "idle"]

\* agents.py lines 211-216: statistics of a new agent; execution_count and
\* success_count are not among its keys
NewAgentStats == [success_rate |-> 0]

NoResponse == [kind |-> "none", inner_ok |-> FALSE, value |-> NullValue]

(***************************************************************************)
(* Plans handed to the execution engine: converted, validated oracle plans *)
(* with n steps, one dependency shape, and at most one step (k) that       *)
(* requires approval.                                                      *)
(***************************************************************************)
ExecShapes == {"none", "chain", "fan", "forward", "self", "dangling"}

ExecCandidates ==
    { ("requires_human_approval" :> rha) @@
      ("steps" :> WithDeps([i \in 1..n |-> [requires_approval |-> (i = k),
                                            risk_level |-> IF i = k THEN "high" ELSE "low"]],
                           sh)) :
        rha \in BOOLEAN, sh \in ExecShapes,
        n \in 0..MaxSteps, k \in 0..MaxSteps }

Execs == 1..MaxExecs

(***************************************************************************)
(* Initial states                                                          *)
(***************************************************************************)
ExecIdle ==
    /\ execPc = [e \in Execs |-> "idle"]
    /\ stepIndex = [e \in Execs |-> 1]
    /\ stepResults = [e \in Execs |-> EmptyDict]
    /\ execStatus = [e \in Execs |-> "none"]
    /\ activeWorkflows = {}
    /\ executorStatus = "active"
    /\ rollbackCalls = [e \in Execs |-> EmptyDict]

\* no request has reached the approval or workflow endpoints, and the
\* approval policy has not been evaluated
ApiIdle ==
    /\ approvalResult = "none"
    /\ workflows_storage = EmptyDict
    /\ approvalCheck = NoCheck
    /\ stepCheck = NoCheck
    /\ riskCheck = NoCheck
    /\ agentConfig = NoCheck
    /\ agentStats = NewAgentStats
    /\ execution_storage = <<>>
    /\ rateCheck = NoCheck
    /\ divisionError = FALSE
    /\ initPc = "new"
    /\ initLog = EmptyDict
    /\ agents = EmptyDict
    /\ agentLookup = "none"
    /\ active_connections = <<>>
    /\ user_connections = EmptyDict
    /\ wsEndpoint = [ws \in WebSockets |-> [pc |-> "new", user_id |-> "None"]]
    /\ settingsDebug = "unloaded"
    /\ clock = 0
    /\ requests = EmptyDict
    /\ passedOn = [ip \in ClientIps |-> <<>>]
    /\ lastDispatch = NoCheck

\* after GeminiService.initialize and PortiaService._initialize_agents
InitGen ==
    /\ \E cfg \in {<<FALSE, FALSE>>, <<TRUE, FALSE>>, <<TRUE, TRUE>>} :
          /\ apiKeySet = cfg[1]
          /\ modelReady = cfg[2]
    /\ genPc = "idle"
    /\ response = NoResponse
    /\ genPath = "none"
    /\ planData = EmptyDict
    /\ validated = FALSE
    /\ plan = NoPlan
    /\ plannerStatus = "active"
    /\ ExecIdle
    /\ ApiIdle

\* a plan has been generated from an oracle answer and converted
InitExec ==
    /\ apiKeySet = TRUE
    /\ modelReady = TRUE
    /\ genPc = "converted"
    /\ \E c \in ExecCandidates :
          /\ response = Decodable("json", MapValue(c))
          /\ genPath = ParseGeminiResponse(response).path
          /\ planData = ParseGeminiResponse(response).data
          /\ validated = ParseGeminiResponse(response).validated
          /\ plan = ConvertToWorkflowPlan(planData)
    /\ plannerStatus = "active"
    /\ ExecIdle
    /\ ApiIdle

(***************************************************************************)
(* GeminiService.generate_workflow_plan                                    *)
(* req is the set of keywords occurring in request.description.            *)
(***************************************************************************)
\* lines 75-95 up to the model call: mock plan, or the call is issued
GenerateStart(req) ==
    /\ genPc = "idle"
    /\ IF ~apiKeySet \/ ~modelReady
         THEN /\ planData' = GenerateMockPlan(req)
              /\ genPath' = "mock"
              /\ genPc' = "returned"
         ELSE /\ genPc' = "awaiting"
              /\ UNCHANGED <<planData, genPath>>
    /\ UNCHANGED <<apiKeySet, modelReady, response, validated, plan,
                   plannerStatus, execVars, apiVars, auxVars>>

\* model.generate_content raises or times out: lines 100-102 re-raise
OracleRaises ==
    /\ genPc = "awaiting"
    /\ genPc' = "raised"
    /\ UNCHANGED <<apiKeySet, modelReady, response, genPath, planData,
                   validated, plan, plannerStatus, execVars, apiVars, auxVars>>

\* model.generate_content returns: lines 91-98
OracleResponds(resp) ==
    /\ genPc = "awaiting"
    /\ response' = resp
    /\ LET r == ParseGeminiResponse(resp)
       IN  /\ planData' = r.data
           /\ genPath' = r.path
           /\ validated' = r.validated
    /\ genPc' = "returned"
    /\ UNCHANGED <<apiKeySet, modelReady, plan, plannerStatus, execVars, apiVars, auxVars>>

\* the caller converts the returned plan data
Convert ==
    /\ genPc = "returned"
    /\ plan' = ConvertToWorkflowPlan(planData)
    /\ genPc' = "converted"
    /\ UNCHANGED <<apiKeySet, modelReady, response, genPath, planData,
                   validated, plannerStatus, execVars, apiVars, auxVars>>

(***************************************************************************)
(* PortiaService.create_workflow_plan, the other way a request is turned   *)
(* into a plan.  portia_client is None (line 29, never assigned), so the   *)
(* call at line 211 raises.                                                *)
(***************************************************************************)
\* lines 195-205: planner found, status WORKING, first await.  The call is
\* a first one or follows a call that raised; the planner's status is not read.
CreatePlanStart ==
    /\ genPc \in {"idle", "portia_raised"}
    /\ plannerStatus' = "working"
    /\ genPc' = "portia_working"
    /\ UNCHANGED <<apiKeySet, modelReady, response, genPath, planData,
                   validated, plan, execVars, apiVars, auxVars>>

\* line 211 raises; lines 226-232: status ERROR, re-raise
CreatePlanFails ==
    /\ genPc = "portia_working"
    /\ plannerStatus' = "error"
    /\ genPc' = "portia_raised"
    /\ UNCHANGED <<apiKeySet, modelReady, response, genPath, planData,
                   validated, plan, execVars, apiVars, auxVars>>

\* the guards are repeated in front of the quantifiers so that the inputs
\* are enumerated only where the action is enabled
GenerateAny ==
    /\ genPc = "idle"
    /\ \E req \in SUBSET Keywords : GenerateStart(req)

OracleRespondsPlan ==
    /\ genPc = "awaiting"
    /\ \E kind \in DecodableKinds, h \in CandidateHeaders,
          ss \in CandidateStepLists, sh \in GenShapes :
            OracleResponds(Decodable(kind, MapValue(Candidate(h, ss, sh))))

OracleRespondsNoSteps ==
    /\ genPc = "awaiting"
    /\ \E kind \in DecodableKinds, h \in CandidateHeaders :
            OracleResponds(Decodable(kind, MapValue(h)))

OracleRespondsNonMapping ==
    /\ genPc = "awaiting"
    /\ \E kind \in DecodableKinds, v \in NonMappings :
            OracleResponds(Decodable(kind, v))

OracleRespondsUndecodable ==
    /\ genPc = "awaiting"
    /\ \E resp \in Undecodable : OracleResponds(resp)

NextGen ==
    \/ GenerateAny
    \/ OracleRaises
    \/ OracleRespondsPlan
    \/ OracleRespondsNoSteps
    \/ OracleRespondsNonMapping
    \/ OracleRespondsUndecodable
    \/ Convert
    \/ CreatePlanStart
    \/ CreatePlanFails

SpecGen == InitGen /\ [][NextGen]_vars

(***************************************************************************)
(* PortiaService.execute_workflow and _execute_step                        *)
(* Every call e runs the plan in `plan`.  A call is cut at its awaits:     *)
(* the store of the new execution, the tool call of each step, the return. *)
(* RedisService.set_json swallows its errors, so the stores never raise.   *)
(***************************************************************************)
NumSteps == Len(plan.steps)

\* lines 634-655: executor found, execution created and stored
ExecuteStart(e) ==
    /\ genPc = "converted"
    /\ execPc[e] = "idle"
    /\ execStatus' = [execStatus EXCEPT ![e] = "running"]
    /\ stepResults' = [stepResults EXCEPT ![e] = EmptyDict]
    /\ activeWorkflows' = activeWorkflows \cup {e}
    /\ execPc' = [execPc EXCEPT ![e] = "created"]
    /\ UNCHANGED <<genVars, apiVars, auxVars, stepIndex, executorStatus, rollbackCalls>>

\* lines 657-659: executor status WORKING, then the loop is entered
SetWorking(e) ==
    /\ execPc[e] = "created"
    /\ executorStatus' = "working"
    /\ stepIndex' = [stepIndex EXCEPT ![e] = 1]
    /\ execPc' = [execPc EXCEPT ![e] = "loop"]
    /\ UNCHANGED <<genVars, apiVars, auxVars, stepResults, execStatus, activeWorkflows, rollbackCalls>>

\* lines 662-664 and 690-696: the next step of the array is handed to
\* _execute_step, which awaits the tool call
Dispatch(e) ==
    /\ execPc[e] = "loop"
    /\ stepIndex[e] <= NumSteps
    /\ execPc' = [execPc EXCEPT ![e] = "in_step"]
    /\ UNCHANGED <<genVars, apiVars, auxVars, stepIndex, stepResults, execStatus, activeWorkflows,
                   executorStatus, rollbackCalls>>

\* lines 698-707 and 666-667: the tool call returned
StepSucceeds(e) ==
    /\ execPc[e] = "in_step"
    /\ stepResults' = [stepResults EXCEPT
                         ![e] = (stepIndex[e] :> "completed") @@ stepResults[e]]
    /\ stepIndex' = [stepIndex EXCEPT ![e] = stepIndex[e] + 1]
    /\ execPc' = [execPc EXCEPT ![e] = "loop"]
    /\ UNCHANGED <<genVars, apiVars, auxVars, execStatus, activeWorkflows, executorStatus, rollbackCalls>>

\* variant without the except block of lines 680-686
StepFailsStatusKept(e) ==
    /\ execPc[e] = "in_step"
    /\ stepResults' = [stepResults EXCEPT
                         ![e] = (stepIndex[e] :> "failed") @@ stepResults[e]]
    /\ execPc' = [execPc EXCEPT ![e] = "raised"]
    /\ UNCHANGED <<genVars, apiVars, auxVars, stepIndex, execStatus, activeWorkflows,
                   executorStatus, rollbackCalls>>

\* lines 709-718 and 680-686: the tool call raised; the result is recorded,
\* the exception leaves _execute_step and execute_workflow
StepFails(e) ==
    /\ execPc[e] = "in_step"
    /\ stepResults' = [stepResults EXCEPT
                         ![e] = (stepIndex[e] :> "failed") @@ stepResults[e]]
    /\ execStatus' = [execStatus EXCEPT ![e] = "failed"]
    /\ execPc' = [execPc EXCEPT ![e] = "raised"]
    /\ UNCHANGED <<genVars, apiVars, auxVars, stepIndex, activeWorkflows, executorStatus, rollbackCalls>>

\* lines 669-678: the loop is exhausted
Finish(e) ==
    /\ execPc[e] = "loop"
    /\ stepIndex[e] > NumSteps
    /\ execStatus' = [execStatus EXCEPT ![e] = "completed"]
    /\ executorStatus' = "active"
    /\ execPc' = [execPc EXCEPT ![e] = "returned"]
    /\ UNCHANGED <<genVars, apiVars, auxVars, stepIndex, stepResults, activeWorkflows, rollbackCalls>>

NextExec ==
    \/ \E e \in Execs : ExecuteStart(e)
    \/ \E e \in Execs : SetWorking(e)
    \/ \E e \in Execs : Dispatch(e)
    \/ \E e \in Execs : StepSucceeds(e)
    \/ \E e \in Execs : StepFails(e)
    \/ \E e \in Execs : Finish(e)

SpecExec == InitExec /\ [][NextExec]_vars

(***************************************************************************)
(* Approval endpoints (app/api/v1/endpoints/approvals.py)                  *)
(* Both handlers build a result dict from the request and return it; they  *)
(* read and write no plan, workflow or execution.                          *)
(***************************************************************************)
\* POST /{approval_id}/approve, lines 98-123
ApproveWorkflow ==
    /\ approvalResult' = "approved"
    /\ UNCHANGED <<genVars, execVars, auxVars, workflows_storage, approvalCheck>>

\* POST /{approval_id}/reject, lines 126-151
RejectWorkflow ==
    /\ approvalResult' = "rejected"
    /\ UNCHANGED <<genVars, execVars, auxVars, workflows_storage, approvalCheck>>

NextApproval ==
    \/ ApproveWorkflow
    \/ RejectWorkflow

\* a converted plan, pending approval or approved, and the approval endpoints
SpecApproval == InitExec /\ [][NextApproval]_vars

(***************************************************************************)
(* Workflow endpoints (app/api/v1/endpoints/workflows.py)                  *)
(* workflows_storage maps a workflow id to the workflow dict, of which the *)
(* status, the statuses of the steps and approval_required are kept.       *)
(***************************************************************************)
WorkflowIds == 1..MaxWorkflows

\* status values a client sends in WorkflowCreateRequest.status and in the
\* body of PATCH
WorkflowStatuses ==
    {"pending", "running", "paused", "completed", "failed", "cancelled"}

\* lines 81-114
NewWorkflow(status) ==
    [ status |-> status,
      steps |-> <<"pending", "pending", "pending">>,
      approval_required |-> FALSE ]

\* POST /workflows, lines 63-129; w is the fresh uuid prefix
CreateWorkflowDirect(w, status) ==
    /\ w \notin DOMAIN workflows_storage
    /\ workflows_storage' = (w :> NewWorkflow(status)) @@ workflows_storage
    /\ UNCHANGED <<genVars, execVars, auxVars, approvalResult, approvalCheck>>

\* lines 153-154: the first step is set to running
StartFirstStep(steps) ==
    IF Len(steps) > 0 THEN [steps EXCEPT ![1] = "running"] ELSE steps

\* lines 161-163: every running step is set back to pending
PauseSteps(steps) ==
    [i \in 1..Len(steps) |-> IF steps[i] = "running" THEN "pending" ELSE steps[i]]

\* lines 171-174: the first pending step is set to running
ResumeFirstPending(steps) ==
    [i \in 1..Len(steps) |->
        IF steps[i] = "pending" /\ \A j \in 1..(i - 1) : steps[j] # "pending"
          THEN "running" ELSE steps[i]]

\* lines 142-179: the status branches of update_workflow_status
UpdateStatus(workflow, new_status) ==
    LET old_status == workflow.status
    IN  IF new_status = "running" /\ old_status = "pending"
          THEN [workflow EXCEPT !.status = "running",
                                !.steps = StartFirstStep(workflow.steps)]
        ELSE IF new_status = "paused" /\ old_status = "running"
          THEN [workflow EXCEPT !.status = "pending",
                                !.steps = PauseSteps(workflow.steps)]
        ELSE IF new_status = "running" /\ old_status = "pending"
          THEN [workflow EXCEPT !.status = "running",
                                !.steps = ResumeFirstPending(workflow.steps)]
        ELSE [workflow EXCEPT !.status = new_status]

\* PATCH /workflows/{workflow_id}, lines 132-193, for a stored workflow
\* (an unknown id is answered with 404)
UpdateWorkflowStatus(w, update_data) ==
    /\ w \in DOMAIN workflows_storage
    /\ workflows_storage' =
          IF Has(update_data, "status")
            THEN [workflows_storage EXCEPT
                    ![w] = UpdateStatus(workflows_storage[w], update_data["status"])]
            ELSE workflows_storage
    /\ UNCHANGED <<genVars, execVars, auxVars, approvalResult, approvalCheck>>

\* DELETE /workflows/{workflow_id}, lines 196-216, for a stored workflow
DeleteWorkflow(w) ==
    /\ w \in DOMAIN workflows_storage
    /\ workflows_storage' =
          [x \in DOMAIN workflows_storage \ {w} |-> workflows_storage[x]]
    /\ UNCHANGED <<genVars, execVars, auxVars, approvalResult, approvalCheck>>

NextPatch ==
    \/ \E w \in WorkflowIds, status \in WorkflowStatuses :
          CreateWorkflowDirect(w, status)
    \/ \E w \in WorkflowIds, update_data \in Opt("status", WorkflowStatuses) :
          UpdateWorkflowStatus(w, update_data)
    \/ \E w \in WorkflowIds : DeleteWorkflow(w)

SpecPatch == InitGen /\ [][NextPatch]_vars

(***************************************************************************)
(* Approval policy (app/services/portia_integration.py,                    *)
(* app/services/ai_personalization_service.py)                             *)
(* Confidence scores and thresholds are floats in [0, 1] with two          *)
(* decimals; they are modelled as integer percentages.                     *)
(***************************************************************************)
LowConfidence == 70         \* 0.7, line 453
MediumRiskConfidence == 90  \* 0.9, line 461

\* confidence scores around the two cut-offs, among them the defaults of
\* _calculate_confidence_score (0.85 and 0.3)
Confidences == {30, 69, 70, 85, 89, 90, 95, 100}

\* risk_tolerance and approval_threshold values of the industry templates
RiskTolerances == {"very_low", "low", "medium", "high"}

ApprovalThresholds == {70, 75, 80, 90, 95}

\* _assess_execution_risk, lines 415-443: the three checks are applied in
\* this order, each overwriting risk_level
AssessExecutionRisk(affects_production, modifies_data, external_integrations) ==
    LET r1 == IF affects_production THEN "high" ELSE "low"
        r2 == IF modifies_data THEN "medium" ELSE r1
    IN  IF external_integrations THEN "medium" ELSE r2

\* _requires_human_approval, lines 445-469; always is
\* context["organization_preferences"].get("always_require_approval", False)
RequiresHumanApproval(confidence_score, level, always) ==
    IF confidence_score < LowConfidence THEN TRUE
    ELSE IF level = "high" THEN TRUE
    ELSE IF level = "medium" /\ confidence_score < MediumRiskConfidence THEN TRUE
    ELSE IF always THEN TRUE
    ELSE FALSE

\* get_recommended_agent_config, lines 183-187: what the organization's
\* policy contributes to an agent's configuration
RecommendedAgentConfig(risk_tolerance, approval_threshold) ==
    [ auto_approve_threshold |-> approval_threshold,
      requires_human_approval |-> risk_tolerance \in {"low", "very_low"} ]

\* agents.py line 164: an agent is created with the configuration
\* recommended for the organization's policy
ConfigureAgent(tolerance, threshold) ==
    /\ approvalCheck.pc = "idle"
    /\ approvalCheck' =
          [ pc |-> "configured",
            risk_tolerance |-> tolerance,
            config |-> RecommendedAgentConfig(tolerance, threshold) ]
    /\ UNCHANGED <<genVars, execVars, auxVars, approvalResult, workflows_storage>>

\* lines 241-251 of _execute_plan_with_monitoring: confidence and risk are computed and
\* handed to _requires_human_approval together with the context; the
\* agent's configuration is not an argument
EvaluateApproval(confidence, prod, data, ext, always) ==
    /\ approvalCheck.pc = "configured"
    /\ approvalCheck' =
          [ pc |-> "done",
            risk_tolerance |-> approvalCheck.risk_tolerance,
            config |-> approvalCheck.config,
            confidence |-> confidence,
            level |-> AssessExecutionRisk(prod, data, ext),
            always |-> always,
            result |-> RequiresHumanApproval(confidence,
                          AssessExecutionRisk(prod, data, ext), always) ]
    /\ UNCHANGED <<genVars, execVars, auxVars, approvalResult, workflows_storage>>

ConfigureAny ==
    /\ approvalCheck.pc = "idle"
    /\ \E tolerance \in RiskTolerances, threshold \in ApprovalThresholds :
          ConfigureAgent(tolerance, threshold)

EvaluateAny ==
    /\ approvalCheck.pc = "configured"
    /\ \E confidence \in Confidences, prod \in BOOLEAN, data \in BOOLEAN,
          ext \in BOOLEAN, always \in BOOLEAN :
            EvaluateApproval(confidence, prod, data, ext, always)

NextPolicy ==
    \/ ConfigureAny
    \/ EvaluateAny

SpecPolicy == InitGen /\ [][NextPolicy]_vars

(***************************************************************************)
(* One candidate step through _validate_plan_data (lines 297-308) and      *)
(* _convert_to_workflow_plan (lines 257-275)                               *)
(***************************************************************************)
\* estimated_duration and tool_integrations values an oracle may give
CandidateDurations == {5, 30}

CandidateTools == {<<>>, <<"slack", "email">>}

\* candidate steps with every one of the four defaulted fields optional
StepInputs ==
    Merge(Merge(Opt("risk_level", RiskLevels), Opt("requires_approval", BOOLEAN)),
          Merge(Opt("estimated_duration", CandidateDurations),
                Opt("tool_integrations", CandidateTools)))

\* the loop body of _validate_plan_data is applied to the step at position i
ValidateOneStep(step, i) ==
    /\ stepCheck.pc = "idle"
    /\ stepCheck' = [ pc |-> "validated",
                      input |-> step,
                      validated |-> ValidateStep(step, i) ]
    /\ UNCHANGED <<outsidePure, riskCheck>>

\* the validated step is turned into a WorkflowStep
ConvertOneStep ==
    /\ stepCheck.pc = "validated"
    /\ stepCheck' = [ pc |-> "converted",
                      input |-> stepCheck.input,
                      validated |-> stepCheck.validated,
                      converted |-> ConvertStep(stepCheck.validated) ]
    /\ UNCHANGED <<outsidePure, riskCheck>>

ValidateAnyStep ==
    /\ stepCheck.pc = "idle"
    /\ \E step \in StepInputs, i \in 1..MaxCandSteps : ValidateOneStep(step, i)

NextStep ==
    \/ ValidateAnyStep
    \/ ConvertOneStep

SpecStep == InitGen /\ [][NextStep]_vars

(***************************************************************************)
(* PortiaService._calculate_overall_risk: the class body defines it twice  *)
(* (lines 433-448 and 624-630); steps is the list of the steps' risk_level *)
(***************************************************************************)
\* risk_level values of a WorkflowStep: the three levels, one of them in
\* another case, and a value outside the scale
StepRisks == RiskLevels \cup {"HIGH", "critical"}

\* str.lower on StepRisks
Lower(r) == IF r = "HIGH" THEN "high" ELSE r

\* lines 433-448: the levels are counted after lower(), other values are
\* not counted
CalculateOverallRiskByCounts(steps) ==
    LET count(level) == Cardinality({i \in 1..Len(steps) : Lower(steps[i]) = level})
    IN  IF count("high") > 0 THEN "high"
        ELSE IF count("medium") > 0 THEN "medium"
        ELSE "low"

\* risk_scores.get(step.risk_level, 1), line 626-627
RiskScore(r) ==
    CASE r = "low" -> 1
      [] r = "medium" -> 2
      [] r = "high" -> 3
      [] OTHER -> 1

\* max(..., default=1) of line 627
MaxScore(steps) ==
    IF Len(steps) = 0 THEN 1
    ELSE CHOOSE m \in {RiskScore(steps[i]) : i \in 1..Len(steps)} :
            \A i \in 1..Len(steps) : RiskScore(steps[i]) <= m

\* variant that looks at the first step only
CalculateOverallRiskOfFirst(steps) ==
    IF Len(steps) = 0 THEN "low"
    ELSE CASE RiskScore(steps[1]) = 1 -> "low"
           [] RiskScore(steps[1]) = 2 -> "medium"
           [] RiskScore(steps[1]) = 3 -> "high"

\* lines 624-630, the definition in force
CalculateOverallRisk(steps) ==
    CASE MaxScore(steps) = 1 -> "low"
      [] MaxScore(steps) = 2 -> "medium"
      [] MaxScore(steps) = 3 -> "high"

\* the first definition is applied to a list of step risks
CalculateByCounts(steps) ==
    /\ riskCheck.pc = "idle"
    /\ riskCheck' = [ pc |-> "counted",
                      steps |-> steps,
                      by_counts |-> CalculateOverallRiskByCounts(steps) ]
    /\ UNCHANGED <<outsidePure, stepCheck>>

\* the second definition is applied to the same list
CalculateByScores ==
    /\ riskCheck.pc = "counted"
    /\ riskCheck' = [ pc |-> "done",
                      steps |-> riskCheck.steps,
                      by_counts |-> riskCheck.by_counts,
                      by_scores |-> CalculateOverallRisk(riskCheck.steps) ]
    /\ UNCHANGED <<outsidePure, stepCheck>>

CalculateAny ==
    /\ riskCheck.pc = "idle"
    /\ \E steps \in SeqsUpTo(StepRisks, MaxSteps) : CalculateByCounts(steps)

NextRisk ==
    \/ CalculateAny
    \/ CalculateByScores

SpecRisk == InitGen /\ [][NextRisk]_vars

(***************************************************************************)
(* Organization policy from a company profile                              *)
(* (app/services/ai_personalization_service.py, agents.py, company.py)     *)
(* Thresholds are percentages.                                             *)
(***************************************************************************)
\* keys of AIPersonalizationService.industry_templates, lines 18-66
Industries ==
    {"technology", "finance", "healthcare", "manufacturing", "retail", "consulting"}

\* risk_tolerance and approval_threshold of each industry template
IndustryTemplate(industry) ==
    CASE industry = "technology" ->
            [risk_tolerance |-> "medium", approval_threshold |-> 70]
      [] industry = "finance" ->
            [risk_tolerance |-> "low", approval_threshold |-> 90]
      [] industry = "healthcare" ->
            [risk_tolerance |-> "very_low", approval_threshold |-> 95]
      [] industry = "manufacturing" ->
            [risk_tolerance |-> "medium", approval_threshold |-> 80]
      [] industry = "retail" ->
            [risk_tolerance |-> "medium", approval_threshold |-> 75]
      [] industry = "consulting" ->
            [risk_tolerance |-> "medium", approval_threshold |-> 80]

\* keys of industry_configs in generate_ai_configuration, company.py 260-285
CompanyIndustries == {"technology", "finance", "healthcare", "manufacturing"}

CompanyIndustryConfig(industry) ==
    CASE industry = "technology" ->
            [risk_tolerance |-> "high", approval_threshold |-> 70]
      [] industry = "finance" ->
            [risk_tolerance |-> "low", approval_threshold |-> 90]
      [] industry = "healthcare" ->
            [risk_tolerance |-> "low", approval_threshold |-> 95]
      [] industry = "manufacturing" ->
            [risk_tolerance |-> "medium", approval_threshold |-> 80]

\* industry values of a profile: the template keys and one no table has
ProfileIndustries == Industries \cup {"agriculture"}

\* company_size values of a profile: the size keys and one that is none
ProfileSizes == {"startup", "small", "medium", "large", "enterprise", "huge"}

\* _extract_size_key, lines 381-394
ExtractSizeKey(company_size) ==
    IF company_size \in {"startup", "small", "medium", "large", "enterprise"}
      THEN company_size ELSE "medium"

\* company_profiles_storage.get("default_profile") found nothing
NoProfile == EmptyDict

\* stored profiles; industry and company_size may be missing from the dict
Profiles ==
    {("company_name" :> "acme") @@ p :
        p \in Merge(Opt("industry", ProfileIndustries), Opt("company_size", ProfileSizes))}

\* get_recommended_agent_config, lines 174-194: the industry template in use
\* (technology for an unknown industry) and the configuration built from it
PolicyOf(company_profile) ==
    LET industry == Get(company_profile, "industry", "technology")
    IN  IF industry \in Industries THEN IndustryTemplate(industry)
        ELSE IndustryTemplate("technology")

\* lines 183-187 with line 186
GetRecommendedAgentConfig(company_profile) ==
    LET size == ExtractSizeKey(Get(company_profile, "company_size", "medium"))
        policy == PolicyOf(company_profile)
    IN  RecommendedAgentConfig(policy.risk_tolerance, policy.approval_threshold)
          @@ [max_execution_time |->
                 IF size \in {"startup", "small"} THEN 300 ELSE 600]

\* agents.py lines 170-178: configuration of an agent without a profile
GenericAgentConfig ==
    [ auto_approve_threshold |-> 80,
      max_execution_time |-> 300,
      requires_human_approval |-> TRUE ]

\* POST /agents, create_agent_direct lines 151-195
CreateAgentDirect(company_profile) ==
    /\ agentConfig.pc = "idle"
    /\ agentConfig' =
          IF company_profile # NoProfile
            THEN [ pc |-> "agent",
                   profile |-> company_profile,
                   policy |-> PolicyOf(company_profile),
                   config |-> GetRecommendedAgentConfig(company_profile) ]
            ELSE [ pc |-> "agent",
                   profile |-> company_profile,
                   policy |-> [approval_threshold |->
                                  GenericAgentConfig.auto_approve_threshold],
                   config |-> GenericAgentConfig ]
    /\ UNCHANGED outsideProfile

\* generate_ai_configuration, company.py lines 256-310, for a CompanyProfile
\* (industry and company_size are required fields)
GenerateAiConfiguration(profile) ==
    /\ agentConfig.pc = "idle"
    /\ LET industry_config ==
              IF profile["industry"] \in CompanyIndustries
                THEN CompanyIndustryConfig(profile["industry"])
                ELSE CompanyIndustryConfig("technology")
       IN  agentConfig' =
              [ pc |-> "company",
                profile |-> profile,
                policy |-> industry_config,
                config |-> [auto_approve_threshold |->
                               industry_config.approval_threshold] ]
    /\ UNCHANGED outsideProfile

CreateAgentAny ==
    /\ agentConfig.pc = "idle"
    /\ \E company_profile \in Profiles \cup {NoProfile} :
          CreateAgentDirect(company_profile)

GenerateAiConfigurationAny ==
    /\ agentConfig.pc = "idle"
    /\ \E profile \in Profiles :
          /\ Has(profile, "industry")
          /\ Has(profile, "company_size")
          /\ GenerateAiConfiguration(profile)

NextProfile ==
    \/ CreateAgentAny
    \/ GenerateAiConfigurationAny

SpecProfile == InitGen /\ [][NextProfile]_vars

(***************************************************************************)
(* Success rates (app/models/agent.py, app/api/v1/endpoints/agents.py)     *)
(* A float quotient is kept as the fraction [num, den]; a value passed     *)
(* through round(x, 2) is kept in hundredths of a percent.                 *)
(***************************************************************************)
\* variant without the test of line 65
CalculateSuccessRateUnguarded(tasks_completed, tasks_failed) ==
    LET total_tasks == tasks_completed + tasks_failed
    IN  [ error |-> total_tasks = 0,
          num |-> tasks_completed * 100,
          den |-> total_tasks ]

\* AgentMetrics.calculate_success_rate, lines 62-67
CalculateSuccessRate(tasks_completed, tasks_failed) ==
    LET total_tasks == tasks_completed + tasks_failed
    IN  IF total_tasks = 0
          THEN [error |-> FALSE, num |-> 0, den |-> 1]
          ELSE [error |-> FALSE, num |-> tasks_completed * 100, den |-> total_tasks]

\* round(succ / total * 100, 2) in hundredths of a percent, for total > 0
\* (no quotient falls on a half for the totals considered)
RoundedRate(succ, total) == (2 * succ * 10000 + total) \div (2 * total)

\* the AgentMetrics method is applied to two counters
CalculateRate(tasks_completed, tasks_failed) ==
    /\ execution_storage = <<>>
    /\ LET r == CalculateSuccessRate(tasks_completed, tasks_failed)
       IN  /\ rateCheck' = [ pc |-> "calculated",
                             tasks_completed |-> tasks_completed,
                             tasks_failed |-> tasks_failed,
                             rate |-> [num |-> r.num, den |-> r.den] ]
           /\ divisionError' = (divisionError \/ r.error)
    /\ UNCHANGED <<outsideMetric, agentStats, execution_storage>>

\* list_agents, lines 100-114, for the agent
ListAgents ==
    LET success_count ==
            Cardinality({i \in 1..Len(execution_storage) :
                            execution_storage[i] = "completed"})
        total_count == Len(execution_storage)
    IN  /\ rateCheck' = [ pc |-> "listed",
                          execution_count |-> total_count,
                          success_count |-> success_count,
                          success_rate |->
                              IF total_count > 0
                                THEN RoundedRate(success_count, total_count)
                                ELSE 0 ]
        /\ UNCHANGED <<outsideMetric, agentStats, execution_storage, divisionError>>

\* POST /agents/{agent_id}/execute, lines 283-322: the execution is stored
\* with status initializing, then the handler awaits
ExecuteRequest ==
    /\ Len(execution_storage) < MaxExecutions
    /\ execution_storage' = Append(execution_storage, "initializing")
    /\ UNCHANGED <<outsideMetric, agentStats, rateCheck, divisionError>>

\* the status an execution ends with, lines 326-401: the result of the real
\* run when Portia is available and the agent has portia_integration,
\* completed from the mock run otherwise
FinalStatuses(portia_available, agent) ==
    IF portia_available /\ Get(agent, "portia_integration", FALSE)
      THEN {"completed", "failed"}
      ELSE {"completed"}

\* lines 405-414: the statistics update for an execution that ended with
\* status
UpdateStatistics(agent, status) ==
    LET counted == ("execution_count" :> Get(agent, "execution_count", 0) + 1) @@ agent
    IN  IF status = "completed"
          THEN LET current_successes == Get(counted, "success_count", 0) + 1
                   total_executions == counted["execution_count"]
               IN  [ error |-> total_executions = 0,
                     agent |-> ("success_count" :> current_successes)
                                 @@ ("success_rate" :>
                                        IF total_executions = 0 THEN 0
                                        ELSE RoundedRate(current_successes,
                                                         total_executions))
                                 @@ counted ]
          ELSE [error |-> FALSE, agent |-> counted]

\* lines 326-418 after the await: execution i gets its final status and the
\* agent's statistics are updated, in one piece
ExecuteFinish(i, portia_available) ==
    /\ i \in 1..Len(execution_storage)
    /\ execution_storage[i] = "initializing"
    /\ \E status \in FinalStatuses(portia_available, agentStats) :
          LET u == UpdateStatistics(agentStats, status)
          IN  /\ execution_storage' = [execution_storage EXCEPT ![i] = status]
              /\ agentStats' = u.agent
              /\ divisionError' = (divisionError \/ u.error)
    /\ UNCHANGED <<outsideMetric, rateCheck>>

CalculateAnyRate ==
    /\ execution_storage = <<>>
    /\ \E c \in 0..MaxTasks, f \in 0..MaxTasks : CalculateRate(c, f)

NextMetrics ==
    \/ CalculateAnyRate
    \/ ListAgents
    \/ ExecuteRequest
    \/ \E i \in 1..MaxExecutions, portia_available \in BOOLEAN :
          ExecuteFinish(i, portia_available)

SpecMetrics == InitGen /\ [][NextMetrics]_vars

(***************************************************************************)
(* PortiaService.initialize (lines 37-75) and the agent lookups            *)
(* initLog records, per initialization step, how it ended.                 *)
(***************************************************************************)
\* the three agents of _initialize_agents, lines 121-180
InitialAgents ==
    ("planner-001" :> "planner") @@ ("executor-001" :> "executor")
        @@ ("auditor-001" :> "auditor")

\* the step of initialize at position pc ends with outcome and control
\* moves to position next
InitStep(pc, outcome, next) ==
    /\ initPc = pc
    /\ initLog' = (pc :> outcome) @@ initLog
    /\ initPc' = next
    /\ UNCHANGED <<outsideInit, agents, agentLookup>>

\* lines 39-47: not yet initialized; GeminiService.initialize swallows its
\* own failures (gemini_service.py lines 66-69)
InitGemini ==
    /\ initPc = "new"
    /\ \E outcome \in {"ok", "mock_mode", "failed_inside"} :
          InitStep("new", outcome, "redis")

\* lines 49-51: RedisService.initialize returns without connecting when no
\* URL is configured, connects, or re-raises (redis_service.py lines 23-65)
InitRedis ==
    /\ initPc = "redis"
    /\ \E outcome \in {"unconfigured", "connected"} :
          InitStep("redis", outcome, "integration")

InitRedisRaises ==
    /\ initPc = "redis"
    /\ InitStep("redis", "raised", "except")

\* lines 53-55: IntegrationService.initialize swallows its own failures
InitIntegration ==
    /\ initPc = "integration"
    /\ \E outcome \in {"ok", "failed_inside"} :
          InitStep("integration", outcome, "config")

\* lines 57-61: _setup_portia_config and _create_enhanced_tool_registry
InitConfig ==
    /\ initPc = "config"
    /\ InitStep("config", "ok", "agents")

\* _setup_portia_config re-raises (lines 97-99)
InitConfigRaises ==
    /\ initPc = "config"
    /\ InitStep("config", "raised", "except")

\* line 67 and lines 119-191: the agents are stored, then their status is
\* written to Redis (set_json swallows failures); line 69
InitializeAgents ==
    /\ initPc = "agents"
    /\ agents' = InitialAgents
    /\ initLog' = ("agents" :> "ok") @@ initLog
    /\ initPc' = "done"
    /\ UNCHANGED <<outsideInit, agentLookup>>

\* lines 72-75: the exception is logged, the service counts as initialized
InitializeDegraded ==
    /\ initPc = "except"
    /\ initPc' = "done"
    /\ UNCHANGED <<outsideInit, initLog, agents, agentLookup>>

\* create_workflow_plan lines 198-200 and execute_workflow lines 637-639 on
\* the initialized service: the agent is looked up by id
LookupAgent(agent_id) ==
    /\ initPc = "done"
    /\ agentLookup' = IF Has(agents, agent_id) THEN "found" ELSE "not_available"
    /\ UNCHANGED <<outsideInit, initPc, initLog, agents>>

NextInit ==
    \/ InitGemini
    \/ InitRedis
    \/ InitRedisRaises
    \/ InitIntegration
    \/ InitConfig
    \/ InitConfigRaises
    \/ InitializeAgents
    \/ InitializeDegraded
    \/ \E agent_id \in {"planner-001", "executor-001"} : LookupAgent(agent_id)

SpecInit == InitGen /\ [][NextInit]_vars

(***************************************************************************)
(* ConnectionManager (websocket/manager.py lines 17-81)                    *)
(* A websocket object is created per connection: its endpoint connects it  *)
(* once and disconnects it once in its finally block, with the same user   *)
(* id.  "None" stands for the absent user id.                              *)
(***************************************************************************)
WsUserIds == {"None", "dashboard-user"}

\* list.remove(x) for a list without duplicates
ListRemove(list, x) == SelectSeq(list, LAMBDA y : y # x)

ListSet(list) == {list[i] : i \in 1..Len(list)}

\* connect, lines 24-34, called first thing by websocket_dashboard (with a
\* user id) and websocket_workflow (without)
Connect(websocket, user_id) ==
    /\ wsEndpoint[websocket].pc = "new"
    /\ active_connections' = Append(active_connections, websocket)
    /\ user_connections' =
          IF user_id # "None"
          THEN LET d == SetDefault(user_connections, user_id, <<>>)
               IN  [d EXCEPT ![user_id] = Append(@, websocket)]
          ELSE user_connections
    /\ wsEndpoint' = [wsEndpoint EXCEPT ![websocket] =
                         [pc |-> "open", user_id |-> user_id]]
    /\ UNCHANGED outsideWs

\* disconnect, lines 36-47, called in the finally block of the endpoint
Disconnect(websocket) ==
    LET user_id == wsEndpoint[websocket].user_id
    IN  /\ wsEndpoint[websocket].pc = "open"
        /\ active_connections' =
              IF websocket \in ListSet(active_connections)
              THEN ListRemove(active_connections, websocket)
              ELSE active_connections
        /\ user_connections' =
              IF user_id # "None" /\ Has(user_connections, user_id)
              THEN LET removed ==
                         IF websocket \in ListSet(user_connections[user_id])
                         THEN ListRemove(user_connections[user_id], websocket)
                         ELSE user_connections[user_id]
                   IN  IF removed = <<>>
                       THEN [u \in DOMAIN user_connections \ {user_id} |->
                                user_connections[u]]
                       ELSE [user_connections EXCEPT ![user_id] = removed]
              ELSE user_connections
        /\ wsEndpoint' = [wsEndpoint EXCEPT ![websocket].pc = "closed"]
        /\ UNCHANGED outsideWs

\* broadcast, lines 66-81: the connections whose send raised are removed
\* from active_connections
BroadcastRemoving(disconnected) ==
    /\ active_connections' =
          SelectSeq(active_connections, LAMBDA c : c \notin disconnected)
    /\ UNCHANGED <<outsideWs, user_connections, wsEndpoint>>

Broadcast ==
    /\ active_connections # <<>>
    /\ \E disconnected \in SUBSET ListSet(active_connections) :
          BroadcastRemoving(disconnected)

ConnectAny ==
    \E websocket \in WebSockets, user_id \in WsUserIds :
        Connect(websocket, user_id)

DisconnectAny == \E websocket \in WebSockets : Disconnect(websocket)

NextWs ==
    \/ ConnectAny
    \/ DisconnectAny
    \/ Broadcast

SpecWs == InitGen /\ [][NextWs]_vars

(***************************************************************************)
(* RateLimitMiddleware (middleware/rate_limiting.py lines 14-57)           *)
(* dispatch does not await between reading the clock and recording the     *)
(* request, so it is one step.  The clock does not run backwards.          *)
(***************************************************************************)
\* defaultdict(deque): a missing key reads as the empty deque
RequestsOf(reqs, client_ip) == Get(reqs, client_ip, <<>>)

\* _clean_old_requests, lines 51-57: timestamps older than the window are
\* popped from the left
RECURSIVE CleanOldRequests(_, _)
CleanOldRequests(deque, current_time) ==
    LET cutoff_time == current_time - window_size
    IN  IF deque # <<>> /\ Head(deque) < cutoff_time
        THEN CleanOldRequests(Tail(deque), current_time)
        ELSE deque

\* the settings are read, line 28
LoadSettings ==
    /\ settingsDebug = "unloaded"
    /\ \E debug \in {"on", "off"} : settingsDebug' = debug
    /\ UNCHANGED <<outsideRate, clock, requests, passedOn, lastDispatch>>

\* time passes between two requests
Tick ==
    /\ settingsDebug # "unloaded"
    /\ clock < MaxTime
    /\ clock' = clock + 1
    /\ UNCHANGED <<outsideRate, settingsDebug, requests, passedOn, lastDispatch>>

\* variant of DispatchLimited that records the request before the check
DispatchRecordFirst(client_ip) ==
    LET current_time == clock
        cleaned == CleanOldRequests(RequestsOf(requests, client_ip), current_time)
        recorded == Append(cleaned, current_time)
    IN  /\ requests' = (client_ip :> recorded) @@ requests
        /\ IF Len(cleaned) >= rate_limit
           THEN /\ lastDispatch' = [pc |-> "done", client_ip |-> client_ip,
                                    status |-> 429]
                /\ UNCHANGED passedOn
           ELSE /\ passedOn' = [passedOn EXCEPT ![client_ip] =
                                   Append(@, current_time)]
                /\ lastDispatch' = [pc |-> "done", client_ip |-> client_ip,
                                    status |-> 200]

\* dispatch with DEBUG off, lines 32-49
DispatchLimited(client_ip) ==
    LET current_time == clock
        cleaned == CleanOldRequests(RequestsOf(requests, client_ip), current_time)
    IN  IF Len(cleaned) >= rate_limit
        THEN /\ requests' = (client_ip :> cleaned) @@ requests
             /\ lastDispatch' = [pc |-> "done", client_ip |-> client_ip,
                                 status |-> 429]
             /\ UNCHANGED passedOn
        ELSE /\ requests' = (client_ip :> Append(cleaned, current_time))
                                @@ requests
             /\ passedOn' = [passedOn EXCEPT ![client_ip] =
                                Append(@, current_time)]
             /\ lastDispatch' = [pc |-> "done", client_ip |-> client_ip,
                                 status |-> 200]

\* dispatch, lines 24-49
RateLimitDispatch(client_ip) ==
    /\ settingsDebug # "unloaded"
    /\ Len(passedOn[client_ip]) < MaxRequests
    /\ IF settingsDebug = "on"
       THEN /\ passedOn' = [passedOn EXCEPT ![client_ip] = Append(@, clock)]
            /\ lastDispatch' = [pc |-> "done", client_ip |-> client_ip,
                                status |-> 200]
            /\ UNCHANGED requests
       ELSE DispatchLimited(client_ip)
    /\ UNCHANGED <<outsideRate, settingsDebug, clock>>

RateLimitDispatchAny == \E client_ip \in ClientIps : RateLimitDispatch(client_ip)

NextRate ==
    \/ LoadSettings
    \/ Tick
    \/ RateLimitDispatchAny

SpecRate == InitGen /\ [][NextRate]_vars

(***************************************************************************)
(* Properties of the execution engine (SpecExec)                           *)
(***************************************************************************)
Result(e, i) == Get(stepResults[e], i, "none")

Running(e, i) == execPc[e] = "in_step" /\ stepIndex[e] = i

StepIndices == 1..NumSteps

PlanRequiresApproval ==
    \/ Get(planData, "requires_human_approval", FALSE)
    \/ \E i \in StepIndices : plan.steps[i].requires_approval

\* C1: approval gating.  No step is handed to _execute_step unless the plan's
\* status is approved or the plan does not require approval.
C1_ApprovalGating ==
    \A e \in Execs : \A i \in StepIndices :
        Running(e, i) => (plan.status = "approved" \/ ~PlanRequiresApproval)

\* C2: dependency ordering.  A step is running only if every other step
\* listed in its dependency list has status completed, whatever the order of
\* the array.
C2_DependencyOrdering ==
    \A e \in Execs : \A i \in StepIndices :
        Running(e, i) =>
            \A j \in StepIndices \ {i} :
                plan.steps[j].step_order \in plan.steps[i].dependencies
                    => Result(e, j) = "completed"

\* C8: a failing step does not abort the plan.  The call does not raise;
\* once it has returned, every step that depends on a failed step is skipped
\* and every step without dependencies has been executed.
C8_FailureSkipsDependents ==
    \A e \in Execs : \A i \in StepIndices :
        Result(e, i) = "failed" =>
            /\ execPc[e] # "raised"
            /\ execPc[e] = "returned" =>
                 \A j \in StepIndices :
                    /\ plan.steps[i].step_order \in plan.steps[j].dependencies
                          => Result(e, j) = "skipped"
                    /\ plan.steps[j].dependencies = {}
                          => Result(e, j) \in {"completed", "failed"}

\* C9: halt at the approval step.  While the plan is pending_approval, a step
\* that requires approval, and every step after it, is neither run nor given
\* a result.
C9_HaltsAtApprovalStep ==
    \A e \in Execs : \A i \in StepIndices :
        (plan.status = "pending_approval" /\ plan.steps[i].requires_approval) =>
            \A j \in i..NumSteps : ~Running(e, j) /\ Result(e, j) = "none"

\* C10: a step whose tool call raised is marked failed and its rollback
\* procedure has been invoked exactly once when _execute_step is left.
C10_FailedStepRolledBackOnce ==
    \A e \in Execs : \A i \in StepIndices :
        (execPc[e] = "raised" /\ stepIndex[e] = i) =>
            /\ Result(e, i) = "failed"
            /\ Get(rollbackCalls[e], i, 0) = 1

(***************************************************************************)
(* Properties of plan generation (SpecGen)                                 *)
(***************************************************************************)
HasPlanData == genPc \in {"returned", "converted"}

\* the greatest risk among the steps, low for no steps
MaxStepRisk(steps) ==
    IF \E i \in 1..Len(steps) : steps[i].risk_level = "high" THEN "high"
    ELSE IF \E i \in 1..Len(steps) : steps[i].risk_level = "medium" THEN "medium"
    ELSE "low"

\* C3: the overall risk of a generated plan is the maximum risk of its steps.
C3_OverallRiskIsMax ==
    genPc = "converted" => plan.risk_level = MaxStepRisk(plan.steps)

\* C4: requires_human_approval of a generated plan is true iff at least one
\* of its steps has requires_approval = true.
C4_ApprovalFlagIffStep ==
    HasPlanData =>
        (Get(planData, "requires_human_approval", FALSE)
            <=> AnyRequiresApproval(Get(planData, "steps", <<>>)))

\* C5: plan generation never propagates an error to its caller, neither from
\* generate_workflow_plan nor from create_workflow_plan.
C5_NoErrorPropagates == genPc \notin {"raised", "portia_raised"}

\* C6: every plan generate_workflow_plan returns is the output of
\* _validate_plan_data.
C6_AlwaysValidated == HasPlanData => validated

\* the oracle answered, and the answer is neither decodable nor holds a
\* decodable block, or what it decodes to is not a mapping
UnparsableResponse ==
    \/ response.kind = "prose"
    \/ response.kind = "fenced" /\ ~response.inner_ok
    \/ response.kind \in DecodableKinds /\ response.value.tag # "map"

DepsStrictlySmaller(steps, numberKey) ==
    \A i \in 1..Len(steps) : \A d \in steps[i]["dependencies"] : d < steps[i][numberKey]

\* C7: unparsable oracle output yields the 3-step fallback plan, with overall
\* risk low or medium and every dependency a strictly smaller step number;
\* the same holds of the plan converted from it.
C7_UnparsableYieldsFallback ==
    (HasPlanData /\ UnparsableResponse) =>
        /\ Len(planData["steps"]) = 3
        /\ planData["overall_risk"] \in {"low", "medium"}
        /\ DepsStrictlySmaller(planData["steps"], "step_number")
        /\ genPc = "converted" =>
              /\ Len(plan.steps) = 3
              /\ plan.risk_level \in {"low", "medium"}
              /\ DepsStrictlySmaller(plan.steps, "step_order")

\* a decodable answer that is not a mapping has been turned into a plan
C7_Witness ==
    /\ genPc = "converted"
    /\ response.kind \in DecodableKinds
    /\ response.value.tag = "list"
    /\ genPath = "fallback_exception"
    /\ plan.steps[2].name = "Execute Main Task"

(***************************************************************************)
(* Status of a finished execution (SpecExec)                               *)
(***************************************************************************)
\* execute_workflow has returned or raised
Finished(e) == execPc[e] \in {"returned", "raised"}

AllStepsDone(e) == \A i \in StepIndices : Result(e, i) \in {"completed", "skipped"}

AnyStepFailed(e) == \E i \in StepIndices : Result(e, i) = "failed"

\* C11: once the step loop is over, the execution status is completed
\* exactly when every step is completed or skipped and none failed, it is
\* failed when some step failed, and it is running otherwise.
C11_StatusFromSteps ==
    \A e \in Execs : Finished(e) =>
        /\ execStatus[e] = "completed" <=> (AllStepsDone(e) /\ ~AnyStepFailed(e))
        /\ AnyStepFailed(e) => execStatus[e] = "failed"
        /\ (~AllStepsDone(e) /\ ~AnyStepFailed(e)) => execStatus[e] = "running"

\* one call failed at its second step, another one completed every step
C11_Witness ==
    \E e1, e2 \in Execs :
        /\ execPc[e1] = "raised"
        /\ Result(e1, 1) = "completed"
        /\ Result(e1, 2) = "failed"
        /\ execStatus[e1] = "failed"
        /\ execPc[e2] = "returned"
        /\ AllStepsDone(e2)
        /\ execStatus[e2] = "completed"

\* step i of the plan has been handed to _execute_step by call e
Dispatched(e, i) == Running(e, i) \/ Result(e, i) # "none"

\* C12: starting is idempotent.  While one execution of the plan is running,
\* a second start creates no second running execution record and hands no
\* step to _execute_step a second time.
C12_StartIdempotent ==
    \A e1, e2 \in Execs : (e1 # e2 /\ execStatus[e1] = "running") =>
        /\ execStatus[e2] # "running"
        /\ \A i \in StepIndices : ~(Dispatched(e1, i) /\ Running(e2, i))

(***************************************************************************)
(* Agent status (SpecGen, SpecExec)                                        *)
(***************************************************************************)
\* one change of an agent's status is a move of the cycle
\* resting -> working -> resting, or resting -> working -> error -> resting,
\* the resting state being AgentStatus.ACTIVE
AgentMove(old, new) ==
    \/ new = old
    \/ old = "active" /\ new = "working"
    \/ old = "working" /\ new \in {"active", "error"}
    \/ old = "error" /\ new = "active"

\* C18: the planner in create_workflow_plan and the executor in
\* execute_workflow change status only along resting -> working -> resting
\* or resting -> working -> error -> resting: never from error to working
\* directly, and from working only to resting or to error.
C18_AgentCycle ==
    [][AgentMove(plannerStatus, plannerStatus')
       /\ AgentMove(executorStatus, executorStatus')]_vars

(***************************************************************************)
(* Properties of the validator (SpecGen)                                   *)
(***************************************************************************)
\* the oracle's answer decoded to a mapping, which _validate_plan_data got
CandidateIsMapping ==
    response.kind \in DecodableKinds /\ response.inner_ok = (response.kind = "fenced")
        /\ response.value.tag = "map"

\* the candidate's step list, empty when the key is missing
CandidateSteps ==
    IF CandidateIsMapping THEN Get(response.value.val, "steps", <<>>) ELSE <<>>

\* C19: validated plan data never have an empty step list; a candidate
\* whose step list is missing or empty comes out of the validator as the
\* 3-step generic plan.
C19_NoEmptyPlan ==
    (HasPlanData /\ validated) =>
        /\ Len(planData["steps"]) > 0
        /\ (CandidateIsMapping /\ Len(CandidateSteps) = 0) => Len(planData["steps"]) = 3

\* C20: after validation every dependency of a step is a strictly smaller
\* step number of the same plan, in the plan data and in the plan converted
\* from them; candidates with self, forward or out-of-range references still
\* yield a plan.
C20_DependenciesValidated ==
    (HasPlanData /\ validated) =>
        /\ \A i \in 1..Len(planData["steps"]) :
              planData["steps"][i]["dependencies"] \subseteq 1..(i - 1)
        /\ genPc = "converted" =>
              \A i \in 1..Len(plan.steps) : plan.steps[i].dependencies \subseteq 1..(i - 1)

\* C14: the plan built from validated plan data has status pending_approval
\* when the plan requires human approval and approved otherwise; a candidate
\* step with risk high and no requires_approval key comes out with
\* requires_approval true, in a plan whose status is pending_approval.
C14_StatusFromApproval ==
    (genPc = "converted" /\ validated) =>
        /\ plan.status =
              IF Get(planData, "requires_human_approval", FALSE)
                THEN "pending_approval" ELSE "approved"
        /\ \A i \in 1..Len(CandidateSteps) :
              (/\ Get(CandidateSteps[i], "risk_level", "medium") = "high"
               /\ ~Has(CandidateSteps[i], "requires_approval"))
              => /\ plan.steps[i].requires_approval
                 /\ plan.status = "pending_approval"

(***************************************************************************)
(* Properties of the approval endpoints (SpecApproval)                     *)
(***************************************************************************)
\* C15: an approve request moves a plan from pending_approval to approved, a
\* reject request moves it from pending_approval to cancelled, and neither
\* changes a plan whose status is not pending_approval.
C15_ApproveRejectMovePlan ==
    [][/\ (approvalResult' = "approved" /\ approvalResult # "approved") =>
             plan'.status = IF plan.status = "pending_approval"
                              THEN "approved" ELSE plan.status
       /\ (approvalResult' = "rejected" /\ approvalResult # "rejected") =>
             plan'.status = IF plan.status = "pending_approval"
                              THEN "cancelled" ELSE plan.status]_vars

(***************************************************************************)
(* Properties of the workflow endpoints (SpecPatch)                        *)
(***************************************************************************)
\* workflow w is stored before and after the step
Kept(w) == w \in DOMAIN workflows_storage /\ w \in DOMAIN workflows_storage'

\* C16: cancelling a workflow whose steps have begun marks the steps not yet
\* started as skipped and leaves completed and failed steps as they are.
C16_CancelSkipsPending ==
    [][\A w \in WorkflowIds :
         (/\ Kept(w)
          /\ workflows_storage[w].status # "cancelled"
          /\ workflows_storage'[w].status = "cancelled"
          /\ \E i \in 1..3 : workflows_storage[w].steps[i] # "pending")
         => \A i \in 1..3 :
              LET before == workflows_storage[w].steps[i]
                  after == workflows_storage'[w].steps[i]
              IN  /\ before = "pending" => after = "skipped"
                  /\ before \in {"completed", "failed"} => after = before]_vars

\* C17: a workflow that is completed or failed is immutable: no later
\* request changes its status or its steps.
C17_TerminalImmutable ==
    [][\A w \in WorkflowIds :
         (Kept(w) /\ workflows_storage[w].status \in {"completed", "failed"})
         => workflows_storage'[w] = workflows_storage[w]]_vars

(***************************************************************************)
(* Properties of the approval policy (SpecPolicy)                          *)
(***************************************************************************)
\* C13: approval is required when the risk is high, or the risk is medium
\* and the confidence is below the organization's threshold, or the
\* organization's risk tolerance is low or very_low (so also for tolerance
\* low, risk medium, confidence 0.95 and threshold 0.8).
C13_ApprovalPolicy ==
    approvalCheck.pc = "done" =>
        ((\/ approvalCheck.level = "high"
          \/ /\ approvalCheck.level = "medium"
             /\ approvalCheck.confidence < approvalCheck.config.auto_approve_threshold
          \/ approvalCheck.risk_tolerance \in {"low", "very_low"})
         => approvalCheck.result)

(***************************************************************************)
(* Properties of the per-step defaults (SpecStep)                          *)
(***************************************************************************)
\* the four fields of validated or converted step out agree with candidate
\* step in where in has them and take the defaults where it has not
DefaultsApplied(in, out) ==
    /\ out["estimated_duration"] = Get(in, "estimated_duration", 10)
    /\ out["risk_level"] = Get(in, "risk_level", "medium")
    /\ out["tool_integrations"] = Get(in, "tool_integrations", <<"internal">>)
    /\ out["requires_approval"] =
          Get(in, "requires_approval", out["risk_level"] = "high")

\* C21: a missing per-step field gets its default and a present one is kept:
\* duration 10, risk medium, tools [internal], and requires_approval =
\* (risk = high) on the step's own risk after the risk default; the
\* converted step carries the same values.
C21_StepDefaults ==
    /\ stepCheck.pc \in {"validated", "converted"} =>
          DefaultsApplied(stepCheck.input, stepCheck.validated)
    /\ stepCheck.pc = "converted" =>
          DefaultsApplied(stepCheck.input, stepCheck.converted)

\* a step given with risk high only has been validated and converted
C21_Witness ==
    /\ stepCheck.pc = "converted"
    /\ DOMAIN stepCheck.input = {"risk_level"}
    /\ stepCheck.input["risk_level"] = "high"
    /\ stepCheck.converted.requires_approval
    /\ stepCheck.converted.estimated_duration = 10

(***************************************************************************)
(* Properties of the risk aggregate (SpecRisk)                             *)
(***************************************************************************)
\* r is the greatest of the risks in steps under low < medium < high, and
\* low when there is none
IsMaxRisk(r, steps) ==
    LET rank == [x \in RiskLevels |->
                    IF x = "low" THEN 1 ELSE IF x = "medium" THEN 2 ELSE 3]
    IN  /\ r \in RiskLevels
        /\ \A i \in 1..Len(steps) : rank[steps[i]] <= rank[r]
        /\ r = "low" \/ \E i \in 1..Len(steps) : steps[i] = r

\* C22: for every list of steps whose risks are low, medium or high, both
\* definitions of _calculate_overall_risk return the maximum risk under
\* low < medium < high, and low for the empty list.
C22_AggregateIsMax ==
    (\A i \in 1..Len(Get(riskCheck, "steps", <<>>)) : riskCheck.steps[i] \in RiskLevels)
    => /\ riskCheck.pc \in {"counted", "done"} =>
             IsMaxRisk(riskCheck.by_counts, riskCheck.steps)
       /\ riskCheck.pc = "done" =>
             IsMaxRisk(riskCheck.by_scores, riskCheck.steps)

\* both definitions have been applied to a list with medium before low, and
\* to the empty list
C22_Witness ==
    /\ riskCheck.pc = "done"
    /\ riskCheck.steps = <<"low", "medium", "low">>
    /\ riskCheck.by_counts = "medium"
    /\ riskCheck.by_scores = "medium"

(***************************************************************************)
(* Properties of the policy fallback (SpecProfile)                         *)
(***************************************************************************)
\* there is no profile, or the profile names an industry no table knows
PolicyNotFound(profile) ==
    \/ profile = NoProfile
    \/ Has(profile, "industry") /\ profile["industry"] \notin Industries

\* C23: when no organization policy is found (no company profile, or a
\* profile whose industry is unknown), the policy used is risk tolerance
\* medium and approval threshold 0.8, and the configuration is produced.
C23_PolicyFallback ==
    (agentConfig.pc \in {"agent", "company"} /\ PolicyNotFound(agentConfig.profile)) =>
        /\ Get(agentConfig.policy, "risk_tolerance", "medium") = "medium"
        /\ agentConfig.policy.approval_threshold = 80
        /\ agentConfig.config.auto_approve_threshold = 80

C25_WorkingWhileAnyRuns ==
    (\E e \in Execs : execPc[e] = "in_step") => executorStatus = "working"

\* C26: once every started execute_workflow call has returned or raised,
\* the executor is not in status WORKING.
C26_NotStuckWorking ==
    (\A e \in Execs : execPc[e] \in {"idle", "returned", "raised"})
        => executorStatus # "working"

\* C27: for every stored workflow, after any sequence of PATCH status
\* updates, a step is running only while the workflow's status is running,
\* and at most one step is running.
C27_RunningStepOnlyWhileRunning ==
    \A w \in DOMAIN workflows_storage :
        LET running == {i \in 1..3 : workflows_storage[w].steps[i] = "running"}
        IN  /\ running # {} => workflows_storage[w].status = "running"
            /\ Cardinality(running) <= 1

(***************************************************************************)
(* Properties of service initialization (SpecInit)                         *)
(***************************************************************************)
\* C28: after any completed initialize call, degraded mode included, the
\* planner, executor and auditor agents are registered, exactly one per
\* role, and no agent lookup fails with 'agent not available'.
C28_AgentsRegistered ==
    initPc = "done" =>
        /\ \A role \in {"planner", "executor", "auditor"} :
              Cardinality({a \in DOMAIN agents : agents[a] = role}) = 1
        /\ agentLookup # "not_available"

(***************************************************************************)
(* Properties of the websocket connection manager (SpecWs)                 *)
(***************************************************************************)
\* C29: after any sequence of connect, disconnect and broadcast, every
\* websocket stored in user_connections is also in active_connections and
\* no user maps to an empty list.
C29_UserConnectionsActive ==
    \A user_id \in DOMAIN user_connections :
        /\ user_connections[user_id] # <<>>
        /\ ListSet(user_connections[user_id]) \subseteq
              ListSet(active_connections)

(***************************************************************************)
(* Properties of the rate limiter (SpecRate)                               *)
(***************************************************************************)
\* the requests of a client handed to the application in the window of
\* window_size seconds that starts at time from
PassedInWindow(client_ip, from) ==
    {i \in 1..Len(passedOn[client_ip]) :
        /\ from <= passedOn[client_ip][i]
        /\ passedOn[client_ip][i] <= from + window_size}

IsSuffix(s, t) ==
    /\ Len(s) <= Len(t)
    /\ \A i \in 1..Len(s) : s[i] = t[Len(t) - Len(s) + i]

\* C30: with DEBUG off, for every client IP and every window of window_size
\* seconds at most rate_limit requests are passed on to the application,
\* and only requests passed on are recorded: a request rejected with 429
\* leaves no timestamp behind.
C30_RateLimited ==
    settingsDebug = "off" =>
        \A client_ip \in ClientIps :
            /\ \A from \in 0..MaxTime :
                  Cardinality(PassedInWindow(client_ip, from)) <= rate_limit
            /\ IsSuffix(RequestsOf(requests, client_ip), passedOn[client_ip])

\* a client was rejected, and later, the window having moved on, was served
\* again while the other client was being rejected
C30_Witness ==
    /\ settingsDebug = "off"
    /\ lastDispatch.pc = "done"
    /\ lastDispatch.status = 429
    /\ \E client_ip \in ClientIps \ {lastDispatch.client_ip} :
          /\ Len(passedOn[client_ip]) > rate_limit
          /\ Len(RequestsOf(requests, client_ip)) < Len(passedOn[client_ip])

====
